---- MODULE Spec2Model ----
(***************************************************************************)
(* Japanese-to-Korean translation service (app/api.py and app/main.py):    *)
(* the response sanitizer clean_translation, the backend invoker           *)
(* call_ollama_api and the request handler translate.                      *)
(*                                                                         *)
(* A Python str is a sequence of Unicode code points (naturals).  The two  *)
(* applications are the two values of a variant: "api" is app/api.py,      *)
(* "main" is app/main.py.                                                  *)
(*                                                                         *)
(* translate is modelled one stage per step, and the steps of different    *)
(* requests interleave freely: every schedule the server can produce       *)
(* (handlers run one after another on the event loop, or side by side in   *)
(* several workers) is among the behaviours.  The backend is free to       *)
(* answer each call with any of the replies.                               *)
(***************************************************************************)
EXTENDS Naturals, Sequences, FiniteSets

VARIABLES
    \* ---- the sanitizer applied to one string (SpecClean) ----
    raw,        \* the argument of clean_translation
    which,      \* the variant whose clean_translation was applied, or "none"
    out,        \* clean_translation(raw), once applied
    again,      \* clean_translation(out), once applied a second time
    cstage,     \* "input", "cleaned", "recleaned" ("off" while requests run)
    \* ---- the service handling requests (Spec) ----
    variant,          \* the application that is running: "api" or "main"
    cfg,              \* OLLAMA_HOST, OLLAMA_PORT, DEFAULT_MODEL
    request,          \* request[r]: the TranslationRequest of r
    pc,               \* pc[r]: where translate stands for r
    payload,          \* payload[r]: the local payload of translate
    reply,            \* reply[r]: what the backend answered to r's call
    translated_text,  \* translated_text[r]: the local of translate
    cleaned_text,     \* cleaned_text[r]: the local of translate
    response,         \* response[r]: what the caller of r received
    calls,            \* calls[r]: the requests.post calls made for r
    stages,           \* stages[r]: the stages run for r, in order
    sent,             \* sent[r]: the responses sent for r
    log               \* the records written through the shared logger

cvars == <<raw, which, out, again, cstage>>

pvars == <<variant, cfg, request, pc, payload, reply, translated_text,
           cleaned_text, response, calls, stages, sent, log>>

vars == <<cvars, pvars>>

Variants == {"api", "main"}

(***************************************************************************)
(* Python's character classes.                                             *)
(***************************************************************************)

\* str.isspace(), the whitespace of str.strip()/str.split() and of \s in a
\* str pattern (the three agree on every code point).
WhitespaceChars ==
    {9, 10, 11, 12, 13, 28, 29, 30, 31, 32, 133, 160, 5760}
        \cup (8192..8202) \cup {8232, 8233, 8239, 8287, 12288}

IsSpace(c) == c \in WhitespaceChars

\* [가-힣]: U+AC00 .. U+D7A3
IsHangul(c) == c >= 44032 /\ c <= 55203

\* [a-zA-Z]
IsLatin(c) == (c >= 65 /\ c <= 90) \/ (c >= 97 /\ c <= 122)

\* [\U0001F300-\U0001F9FF]
IsEmoji(c) == c >= 127744 /\ c <= 129535

\* '한국어:'
Label == <<54620, 44397, 50612, 58>>

\* '\n'
Newline == <<10>>

\* ' '
Space == <<32>>

(***************************************************************************)
(* Python's string operations, as the interpreter computes them.           *)
(***************************************************************************)

\* text[i:] (1-based i)
From(text, i) == SubSeq(text, i, Len(text))

\* text.startswith(pat, i-1)
StartsAt(text, pat, i) ==
    /\ i + Len(pat) - 1 <= Len(text)
    /\ SubSeq(text, i, i + Len(pat) - 1) = pat

\* text.find(pat, i-1) + 1: the first position >= i where pat occurs, 0 if none
RECURSIVE Find(_, _, _)
Find(text, pat, i) ==
    IF i + Len(pat) - 1 > Len(text) THEN 0
    ELSE IF StartsAt(text, pat, i) THEN i
    ELSE Find(text, pat, i + 1)

\* pat in text
Contains(text, pat) == Find(text, pat, 1) # 0

\* text.split(sep): the pieces between the non-overlapping occurrences of
\* sep, found scanning from the left
RECURSIVE Split(_, _)
Split(text, sep) ==
    LET k == Find(text, sep, 1)
    IN  IF k = 0 THEN <<text>>
        ELSE <<SubSeq(text, 1, k - 1)>> \o Split(From(text, k + Len(sep)), sep)

\* text.lstrip()
RECURSIVE LStrip(_)
LStrip(text) ==
    IF text # <<>> /\ IsSpace(Head(text)) THEN LStrip(Tail(text)) ELSE text

\* text.rstrip()
RECURSIVE RStrip(_)
RStrip(text) ==
    IF text # <<>> /\ IsSpace(text[Len(text)])
    THEN RStrip(SubSeq(text, 1, Len(text) - 1))
    ELSE text

\* text.strip()
Strip(text) == RStrip(LStrip(text))

\* the length of the longest prefix of text without whitespace
RECURSIVE WordLen(_)
WordLen(text) ==
    IF text = <<>> \/ IsSpace(Head(text)) THEN 0 ELSE 1 + WordLen(Tail(text))

\* text.split(): the maximal runs of non-whitespace characters
RECURSIVE SplitWords(_)
SplitWords(text) ==
    LET t == LStrip(text)
        n == WordLen(t)
    IN  IF t = <<>> THEN <<>>
        ELSE <<SubSeq(t, 1, n)>> \o SplitWords(From(t, n + 1))

\* ' '.join(words)
RECURSIVE JoinSpace(_)
JoinSpace(words) ==
    IF words = <<>> THEN <<>>
    ELSE IF Len(words) = 1 THEN words[1]
    ELSE words[1] \o Space \o JoinSpace(Tail(words))

\* re.sub(r'\([^)]*\)', '', text): leftmost non-overlapping matches, each
\* from a '(' to the first ')' after it
RECURSIVE RemoveParens(_)
RemoveParens(text) ==
    LET open == Find(text, <<40>>, 1)
        close == IF open = 0 THEN 0 ELSE Find(text, <<41>>, open + 1)
    IN  IF close = 0 THEN text
        ELSE SubSeq(text, 1, open - 1) \o RemoveParens(From(text, close + 1))

\* re.sub(r'[a-zA-Z]', '', text)
RemoveLatin(text) == SelectSeq(text, LAMBDA c : ~IsLatin(c))

\* re.sub(r'[\U0001F300-\U0001F9FF]', '', text)
RemoveEmoji(text) == SelectSeq(text, LAMBDA c : ~IsEmoji(c))

\* re.sub(r'[^가-힣\s]', '', text)
KeepHangulAndSpace(text) == SelectSeq(text, LAMBDA c : IsHangul(c) \/ IsSpace(c))

\* a slip: re.sub(r' +', ' ', text), which leaves tabs and other whitespace
RECURSIVE CollapseBlanksOnly(_)
CollapseBlanksOnly(text) ==
    IF text = <<>> THEN <<>>
    ELSE IF Head(text) = 32 /\ Len(text) > 1 /\ text[2] = 32
         THEN CollapseBlanksOnly(Tail(text))
         ELSE <<Head(text)>> \o CollapseBlanksOnly(Tail(text))

\* re.sub(r'\s+', ' ', text)
RECURSIVE CollapseSpaces(_)
CollapseSpaces(text) ==
    IF text = <<>> THEN <<>>
    ELSE IF IsSpace(Head(text))
         THEN Space \o CollapseSpaces(LStrip(text))
         ELSE <<Head(text)>> \o CollapseSpaces(Tail(text))

(***************************************************************************)
(* clean_translation, step by step.                                        *)
(***************************************************************************)

\* a slip: text.split('한국어:')[1], the text after the first label
ExtractAfterFirstLabel(text) ==
    IF Contains(text, Label) THEN Split(text, Label)[2] ELSE text

\* if '한국어:' in text: text = text.split('한국어:')[-1]
ExtractAfterLabel(text) ==
    IF Contains(text, Label)
    THEN LET parts == Split(text, Label) IN parts[Len(parts)]
    ELSE text

\* a slip: text.strip(), all the lines kept
AllLines(text) == Strip(text)

\* text = text.split('\n')[0].strip()
FirstLine(text) == Strip(Split(text, Newline)[1])

\* a slip: words[:half] == words[half:2 * half], blind to an odd last word
CollapseIgnoringOddWord(text) ==
    LET words == SplitWords(text)
        half == Len(words) \div 2
    IN  IF Len(words) > 1
           /\ SubSeq(words, 1, half) = SubSeq(words, half + 1, 2 * half)
        THEN JoinSpace(SubSeq(words, 1, half))
        ELSE text

\* words = text.split(); if len(words) > 1: half = len(words) // 2;
\* if words[:half] == words[half:]: text = ' '.join(words[:half])
CollapseDuplicateHalves(text) ==
    LET words == SplitWords(text)
        half == Len(words) \div 2
    IN  IF Len(words) > 1
           /\ SubSeq(words, 1, half) = SubSeq(words, half + 1, Len(words))
        THEN JoinSpace(SubSeq(words, 1, half))
        ELSE text

\* the steps both variants share after the first line is taken: parentheses,
\* Latin letters, emoji, the Hangul/whitespace whitelist, whitespace runs,
\* and the final strip
StripAndNormalize(text) ==
    Strip(CollapseSpaces(KeepHangulAndSpace(RemoveEmoji(RemoveLatin(
        RemoveParens(text))))))

\* the text handed to the shared steps: api.py collapses duplicate halves,
\* main.py does not
BeforeShared(v, text) ==
    IF v = "api"
    THEN CollapseDuplicateHalves(FirstLine(ExtractAfterLabel(text)))
    ELSE FirstLine(ExtractAfterLabel(text))

clean_translation(v, text) == StripAndNormalize(BeforeShared(v, text))

(***************************************************************************)
(* The service: configuration, requests, backend replies.                  *)
(***************************************************************************)

\* the requests that may be in flight together
NumRequests == 2

Requests == 1..NumRequests

DEFAULT_MODEL == "gemma2:9b"

\* OLLAMA_HOST = os.getenv("OLLAMA_HOST", "ollama"),
\* OLLAMA_PORT = os.getenv("OLLAMA_PORT", "11434"): the default, or what the
\* environment sets
Environments ==
    [OLLAMA_HOST : {"ollama", "localhost"},
     OLLAMA_PORT : {"11434"},
     DEFAULT_MODEL : {DEFAULT_MODEL}]

\* model: Optional[str] = DEFAULT_MODEL: left out, given, or null
NoModel == "None"

\* the bodies a caller may post: japanese_text, and model given, null or
\* left out ("default")
RequestBodies ==
    {<<"jp1", "default">>, <<"jp2", "llama3">>, <<"jp1", NoModel>>}

\* class TranslationRequest
TranslationRequest(japanese_text, model) ==
    [japanese_text |-> japanese_text, model |-> model]

NoRequest == TranslationRequest("", "")

\* the exceptions of requests.exceptions.RequestException that
\* requests.post and raise_for_status raise: no connection, no answer within
\* the timeout, an answer whose status is not 2xx
RequestFailures == {"ConnectionError", "Timeout", "HTTPError"}

\* the response texts the backend may put in its body
\* '', ' ', 'a', ' 가 나\n'
ReplyTexts ==
    {<<>>, <<32>>, <<97>>, <<32, 44032, 32, 45208, 10>>}

\* what comes back from requests.post: a failure, or a 2xx answer whose
\* parsed body has no "response" key, a null one, or a string
Replies ==
    {[kind |-> k, key |-> "none", text |-> <<>>] : k \in RequestFailures}
        \cup {[kind |-> "ok", key |-> k, text |-> <<>>] : k \in {"missing", "null"}}
        \cup {[kind |-> "ok", key |-> "str", text |-> t] : t \in ReplyTexts}

NoReply == [kind |-> "none", key |-> "none", text |-> <<>>]

(***************************************************************************)
(* Exceptions and responses.                                               *)
(***************************************************************************)

\* HTTPException(status_code=500, detail=detail)
HTTPException(detail) == [type |-> "HTTPException", detail |-> detail]

\* any other exception, with its message
OtherException(type, message) == [type |-> type, detail |-> message]

\* str(e): Starlette's HTTPException prints "<status_code>: <detail>", the
\* others print their message
StrOf(e) ==
    IF e.type = "HTTPException" THEN <<"500: ">> \o e.detail ELSE e.detail

Raise(e) == [raised |-> TRUE, exc |-> e, value |-> <<>>]

Return(value) ==
    [raised |-> FALSE, exc |-> OtherException("none", <<>>), value |-> value]

\* translate's handler: except Exception as e: raise HTTPException(
\*   status_code=500, detail=f"번역 중 오류 발생: {str(e)}")
ErrorResponse(e) ==
    [status |-> 500,
     body |-> [detail |-> <<"error during translation: ">> \o StrOf(e)]]

\* class TranslationResponse, returned with status 200
TranslationResponse(korean_text, model_used) ==
    [status |-> 200,
     body |-> [korean_text |-> korean_text, model_used |-> model_used]]

NoResponse == [status |-> 0, body |-> [detail |-> <<>>]]

(***************************************************************************)
(* create_ollama_payload and call_ollama_api.                              *)
(***************************************************************************)

\* api.py: the f-string of translate; main.py: TRANSLATION_PROMPT.format
Prompt(v, japanese_text) ==
    IF v = "api"
    THEN <<"translate to Korean, output only the result; Japanese: ",
           japanese_text, "Korean:">>
    ELSE <<"TRANSLATION_PROMPT", japanese_text>>

create_ollama_payload(v, prompt, model) ==
    IF v = "api"
    THEN [model |-> model, prompt |-> prompt, stream |-> FALSE,
          system |-> "translator, output only the translation",
          options |-> [temperature |-> "0.7", top_p |-> "0.9", num_ctx |-> 4096]]
    ELSE [model |-> model, prompt |-> prompt, stream |-> FALSE,
          system |-> "can only translate Japanese to Korean",
          format |-> "json"]

\* requests.post(f"http://{OLLAMA_HOST}:{OLLAMA_PORT}/api/generate",
\*               json=payload, timeout=...)
Post(v, c, p) ==
    [url |-> <<"http://", c.OLLAMA_HOST, ":", c.OLLAMA_PORT, "/api/generate">>,
     json |-> p,
     timeout |-> IF v = "api" THEN 300 ELSE 60]

\* result.get("response", "")
ResponseField(rp) == IF rp.key = "str" THEN rp.text ELSE <<>>

\* a slip: the except clause returns "" instead of raising
call_ollama_api_swallowing(v, rp) ==
    IF rp.kind \in RequestFailures
    THEN Return(<<>>)
    ELSE IF v = "api" /\ (rp.key # "str" \/ rp.text = <<>>)
    THEN Raise(HTTPException(<<"the translation result is empty">>))
    ELSE IF rp.key = "null"
    THEN Raise(OtherException("AttributeError", <<"'NoneType' object has no attribute 'strip'">>))
    ELSE Return(Strip(ResponseField(rp)))

\* call_ollama_api once requests.post has come back with rp
call_ollama_api(v, rp) ==
    IF rp.kind \in RequestFailures
    THEN \* except requests.exceptions.RequestException as e
         Raise(HTTPException(<<"translation service error: ", rp.kind>>))
    ELSE IF v = "api" /\ (rp.key # "str" \/ rp.text = <<>>)
    THEN \* if not result.get("response")
         Raise(HTTPException(<<"the translation result is empty">>))
    ELSE IF rp.key = "null"
    THEN \* None.strip()
         Raise(OtherException("AttributeError", <<"'NoneType' object has no attribute 'strip'">>))
    ELSE Return(Strip(ResponseField(rp)))

\* the records call_ollama_api and translate's handler log for the call
CallLog(v, rp) ==
    LET res == call_ollama_api(v, rp)
    IN  (IF v = "api" THEN {"call_start"} ELSE {})
        \cup (IF v = "api" /\ rp.kind = "ok" THEN {"response"} ELSE {})
        \cup (IF rp.kind \in RequestFailures THEN {"call_error"} ELSE {})
        \cup (IF v = "api" /\ rp.kind = "ok" /\ res.raised
              THEN {"empty_response"} ELSE {})
        \cup (IF res.raised THEN {"unexpected_error"} ELSE {})
        \cup (IF v = "api" /\ ~res.raised THEN {"result"} ELSE {})

\* the end of translate, from the cleaned text on
Finish(v, rq, cleaned) ==
    IF v = "api" /\ cleaned = <<>>
    THEN \* if not cleaned_text: raise HTTPException(...), caught below it
         ErrorResponse(HTTPException(<<"the translation result is empty">>))
    ELSE IF rq.model = NoModel
    THEN \* model_used: str refuses None
         ErrorResponse(OtherException("ValidationError", <<"model_used: none is not an allowed value">>))
    ELSE TranslationResponse(cleaned, rq.model)

FinishLog(v, rq, cleaned) ==
    (IF v = "api" /\ cleaned = <<>> THEN {"empty_cleaned"} ELSE {})
        \cup (IF Finish(v, rq, cleaned).status = 500
              THEN {"unexpected_error"} ELSE {})

(***************************************************************************)
(* translate, one action per stage.                                        *)
(***************************************************************************)

Records(r, events) == {<<r, e>> : e \in events}

PipelineIdle ==
    /\ request = [r \in Requests |-> NoRequest]
    /\ pc = [r \in Requests |-> "idle"]
    /\ payload = [r \in Requests |-> <<>>]
    /\ reply = [r \in Requests |-> NoReply]
    /\ translated_text = [r \in Requests |-> <<>>]
    /\ cleaned_text = [r \in Requests |-> <<>>]
    /\ response = [r \in Requests |-> NoResponse]
    /\ calls = [r \in Requests |-> <<>>]
    /\ stages = [r \in Requests |-> <<>>]
    /\ sent = [r \in Requests |-> 0]
    /\ log = {}

Init ==
    /\ variant \in Variants
    /\ cfg \in Environments
    /\ PipelineIdle
    /\ raw = <<>>
    /\ which = "none"
    /\ out = <<>>
    /\ again = <<>>
    /\ cstage = "off"

\* POST /translate arrives with its body
Receive(r) ==
    /\ pc[r] = "idle"
    /\ \E b \in RequestBodies :
          request' = [request EXCEPT ![r] = TranslationRequest(b[1],
              IF b[2] = "default" THEN cfg.DEFAULT_MODEL ELSE b[2])]
    /\ pc' = [pc EXCEPT ![r] = "start"]
    /\ UNCHANGED <<variant, cfg, payload, reply, translated_text, cleaned_text,
                   response, calls, stages, sent, log, cvars>>

\* prompt = ...; payload = create_ollama_payload(prompt, request.model)
BuildPayload(r) ==
    /\ pc[r] = "start"
    /\ payload' = [payload EXCEPT ![r] =
          create_ollama_payload(variant,
              Prompt(variant, request[r].japanese_text), request[r].model)]
    /\ stages' = [stages EXCEPT ![r] = Append(@, "payload")]
    /\ log' = log \cup Records(r,
          IF variant = "api" THEN {"request_start", "prompt"} ELSE {})
    /\ pc' = [pc EXCEPT ![r] = "built"]
    /\ UNCHANGED <<variant, cfg, request, reply, translated_text, cleaned_text,
                   response, calls, sent, cvars>>

\* a slip: a failed post is tried again instead of ending the request
CallBackendRetry(r) ==
    /\ pc[r] = "built"
    /\ \E rp \in Replies :
          LET res == call_ollama_api(variant, rp)
          IN  /\ reply' = [reply EXCEPT ![r] = rp]
              /\ log' = log \cup Records(r, CallLog(variant, rp))
              /\ IF rp.kind \in RequestFailures
                 THEN UNCHANGED <<response, sent, pc, translated_text>>
                 ELSE IF res.raised
                 THEN /\ response' = [response EXCEPT ![r] = ErrorResponse(res.exc)]
                      /\ sent' = [sent EXCEPT ![r] = @ + 1]
                      /\ pc' = [pc EXCEPT ![r] = "done"]
                      /\ UNCHANGED translated_text
                 ELSE /\ translated_text' = [translated_text EXCEPT ![r] = res.value]
                      /\ pc' = [pc EXCEPT ![r] = "called"]
                      /\ UNCHANGED <<response, sent>>
    /\ calls' = [calls EXCEPT ![r] = Append(@, Post(variant, cfg, payload[r]))]
    /\ stages' = [stages EXCEPT ![r] = Append(@, "backend")]
    /\ UNCHANGED <<variant, cfg, request, payload, cleaned_text, cvars>>

\* translated_text = call_ollama_api(payload); an exception ends the request
\* in translate's handler
CallBackend(r) ==
    /\ pc[r] = "built"
    /\ \E rp \in Replies :
          LET res == call_ollama_api(variant, rp)
          IN  /\ reply' = [reply EXCEPT ![r] = rp]
              /\ log' = log \cup Records(r, CallLog(variant, rp))
              /\ IF res.raised
                 THEN /\ response' = [response EXCEPT ![r] = ErrorResponse(res.exc)]
                      /\ sent' = [sent EXCEPT ![r] = @ + 1]
                      /\ pc' = [pc EXCEPT ![r] = "done"]
                      /\ UNCHANGED translated_text
                 ELSE /\ translated_text' = [translated_text EXCEPT ![r] = res.value]
                      /\ pc' = [pc EXCEPT ![r] = "called"]
                      /\ UNCHANGED <<response, sent>>
    /\ calls' = [calls EXCEPT ![r] = Append(@, Post(variant, cfg, payload[r]))]
    /\ stages' = [stages EXCEPT ![r] = Append(@, "backend")]
    /\ UNCHANGED <<variant, cfg, request, payload, cleaned_text, cvars>>

\* a slip: the text to clean is kept in a module-level variable, so a request
\* may clean the text another request has stored there
SanitizeShared(r) ==
    /\ pc[r] = "called"
    /\ \E q \in Requests :
          /\ pc[q] \in {"called", "cleaned"}
          /\ cleaned_text' = [cleaned_text EXCEPT ![r] =
                clean_translation(variant, translated_text[q])]
    /\ stages' = [stages EXCEPT ![r] = Append(@, "sanitize")]
    /\ log' = log \cup Records(r, IF variant = "api" THEN {"cleaned"} ELSE {})
    /\ pc' = [pc EXCEPT ![r] = "cleaned"]
    /\ UNCHANGED <<variant, cfg, request, payload, reply, translated_text,
                   response, calls, sent, cvars>>

\* cleaned_text = clean_translation(translated_text)
Sanitize(r) ==
    /\ pc[r] = "called"
    /\ cleaned_text' = [cleaned_text EXCEPT ![r] =
          clean_translation(variant, translated_text[r])]
    /\ stages' = [stages EXCEPT ![r] = Append(@, "sanitize")]
    /\ log' = log \cup Records(r, IF variant = "api" THEN {"cleaned"} ELSE {})
    /\ pc' = [pc EXCEPT ![r] = "cleaned"]
    /\ UNCHANGED <<variant, cfg, request, payload, reply, translated_text,
                   response, calls, sent, cvars>>

\* the empty check of api.py, then return TranslationResponse(...)
Respond(r) ==
    /\ pc[r] = "cleaned"
    /\ response' = [response EXCEPT ![r] =
          Finish(variant, request[r], cleaned_text[r])]
    /\ sent' = [sent EXCEPT ![r] = @ + 1]
    /\ log' = log \cup Records(r, FinishLog(variant, request[r], cleaned_text[r]))
    /\ pc' = [pc EXCEPT ![r] = "done"]
    /\ UNCHANGED <<variant, cfg, request, payload, reply, translated_text,
                   cleaned_text, calls, stages, cvars>>

Next ==
    \E r \in Requests :
        \/ Receive(r)
        \/ BuildPayload(r)
        \/ CallBackend(r)
        \/ Sanitize(r)
        \/ Respond(r)

Spec == Init /\ [][Next]_vars

(***************************************************************************)
(* The sanitizer applied to bounded inputs.                                *)
(***************************************************************************)

\* the longest input, counted in pieces (a piece is the label or one character)
MaxPieces == 4

\* the longest line of whole words, counted in words
MaxTokens == 4

\* 가 나 ' ' '\t' '\n' ( ) a U+1F600
Alphabet == {44032, 45208, 32, 9, 10, 40, 41, 97, 128512}

Pieces == {Label} \cup {<<c>> : c \in Alphabet}

\* the concatenations of at most n pieces
RECURSIVE PieceStrings(_)
PieceStrings(n) ==
    IF n = 0 THEN {<<>>}
    ELSE LET shorter == PieceStrings(n - 1)
         IN  shorter \cup {p \o s : p \in Pieces, s \in shorter}

\* 가, 나
Words == {<<44032>>, <<45208>>}

\* the lines of at most n words separated by one space
TokenLines(n) ==
    {JoinSpace(ws) : ws \in UNION {[1..k -> Words] : k \in 0..n}}

Inputs == PieceStrings(MaxPieces) \cup TokenLines(MaxTokens)

InitClean ==
    /\ variant = "api"
    /\ cfg \in {e \in Environments : e.OLLAMA_HOST = "ollama"}
    /\ PipelineIdle
    /\ raw \in Inputs
    /\ which = "none"
    /\ out = <<>>
    /\ again = <<>>
    /\ cstage = "input"

\* cleaned_text = clean_translation(translated_text)
Clean(v) ==
    /\ cstage = "input"
    /\ which' = v
    /\ out' = clean_translation(v, raw)
    /\ cstage' = "cleaned"
    /\ UNCHANGED <<raw, again, pvars>>

\* the sanitizer applied to its own output
Reclean ==
    /\ cstage = "cleaned"
    /\ again' = clean_translation(which, out)
    /\ cstage' = "recleaned"
    /\ UNCHANGED <<raw, which, out, pvars>>

NextClean ==
    \/ \E v \in Variants : Clean(v)
    \/ Reclean

SpecClean == InitClean /\ [][NextClean]_vars

(***************************************************************************)
(* The sanitizer's properties (SpecClean).                                 *)
(***************************************************************************)

Applied == cstage \in {"cleaned", "recleaned"}

\* only Hangul syllables and ' ', no two ' ' in a row, none at either end
WellFormed(t) ==
    /\ \A i \in 1..Len(t) : IsHangul(t[i]) \/ t[i] = 32
    /\ \A i \in 1..(Len(t) - 1) : ~(t[i] = 32 /\ t[i + 1] = 32)
    /\ t # <<>> => (t[1] # 32 /\ t[Len(t)] # 32)

\* C2: for every input, in both variants, the output of clean_translation
\* holds only Hangul syllables and space characters, never two adjacent
\* spaces and no space at either end (the empty string is allowed).
C2_OnlyHangulAndSingleSpaces == Applied => WellFormed(out)

\* an input with a tab, a Latin letter and a run of whitespace between two
\* words has been cleaned to the two words and one space
C2_Witness ==
    /\ cstage = "cleaned"
    /\ raw = <<44032, 9, 32, 45208>>
    /\ out = <<44032, 32, 45208>>

\* C3: clean_translation of api.py is idempotent: cleaning its own output
\* gives that output again.
C3_Idempotent == (cstage = "recleaned" /\ which = "api") => again = out

\* the positions where the label occurs in t
LabelPositions(t) == {i \in 1..Len(t) : StartsAt(t, Label, i)}

\* the substring of t after the last occurrence of the label
AfterLastLabel(t) ==
    LET last == CHOOSE i \in LabelPositions(t) :
                    \A j \in LabelPositions(t) : j <= i
    IN  From(t, last + Len(Label))

\* C4: for every input that contains the label, the output equals the output
\* for the substring after the label's last occurrence.
C4_LabelExtraction ==
    (Applied /\ LabelPositions(raw) # {}) =>
        out = clean_translation(which, AfterLastLabel(raw))

\* an input with the label twice, a different word after each
C4_Witness ==
    /\ cstage = "cleaned"
    /\ raw = Label \o <<44032>> \o Label \o <<45208>>
    /\ out = <<45208>>

\* the first line of t after label extraction, as the claims name it
LineOf(t) ==
    LET s == IF LabelPositions(t) = {} THEN t ELSE AfterLastLabel(t)
        breaks == {i \in 1..Len(s) : s[i] = 10}
    IN  IF breaks = {} THEN s
        ELSE SubSeq(s, 1, (CHOOSE i \in breaks : \A j \in breaks : i <= j) - 1)

\* the tokens of t are an even, non-zero number and the first half equals
\* the second half token for token
TwoEqualHalves(toks) ==
    /\ Len(toks) # 0
    /\ Len(toks) % 2 = 0
    /\ \A i \in 1..(Len(toks) \div 2) : toks[i] = toks[i + Len(toks) \div 2]

\* C5: in api.py, when the first line's tokens are two equal halves the text
\* passed on is the first half joined by single spaces and the output is the
\* later steps applied to it; otherwise the step leaves the text unchanged.
C5_DuplicateHalves ==
    (Applied /\ which = "api") =>
        LET line == Strip(LineOf(raw))
            toks == SplitWords(line)
            firstHalf == JoinSpace(SubSeq(toks, 1, Len(toks) \div 2))
        IN  IF TwoEqualHalves(toks)
            THEN /\ BeforeShared("api", raw) = firstHalf
                 /\ out = StripAndNormalize(firstHalf)
            ELSE /\ BeforeShared("api", raw) = line
                 /\ out = StripAndNormalize(line)

\* '가 나 가 나' has been cleaned by api.py to '가 나'
C5_Witness ==
    /\ cstage = "cleaned"
    /\ which = "api"
    /\ raw = <<44032, 32, 45208, 32, 44032, 32, 45208>>
    /\ out = <<44032, 32, 45208>>

\* the Hangul syllables of t, in order
HangulOf(t) == SelectSeq(t, IsHangul)

\* a is b with some elements left out
RECURSIVE IsSubsequence(_, _)
IsSubsequence(a, b) ==
    IF a = <<>> THEN TRUE
    ELSE IF b = <<>> THEN FALSE
    ELSE IF Head(a) = Head(b) THEN IsSubsequence(Tail(a), Tail(b))
    ELSE IsSubsequence(a, Tail(b))

\* C10: the Hangul syllables of the output are a subsequence of those of the
\* first line of the input after the last label, and the output is never
\* longer than the input.
C10_NothingInvented ==
    Applied =>
        /\ IsSubsequence(HangulOf(out), HangulOf(LineOf(raw)))
        /\ Len(out) <= Len(raw)

\* a two-line input whose second line holds Hangul has been cleaned to the
\* Hangul of its first line
C10_Witness ==
    /\ cstage = "cleaned"
    /\ raw = <<44032, 97, 10, 45208>>
    /\ out = <<44032>>

(***************************************************************************)
(* The service's properties (Spec).                                        *)
(***************************************************************************)

\* C1: no request, in either variant and whatever the backend replies, ends
\* in a success response whose korean_text is the empty string.
C1_NoEmptySuccess ==
    \A r \in Requests :
        response[r].status = 200 => response[r].body.korean_text # <<>>

\* the backend call of r failed: no connection, a timeout, a non-2xx status
BackendFailed(r) == reply[r].kind \in RequestFailures

\* C6: when the backend call fails the request ends in one error response
\* of status 500 whose detail carries the cause; the sanitizer has not run
\* for it and it holds no translation text.
C6_BackendFailure ==
    \A r \in Requests :
        BackendFailed(r) =>
            /\ pc[r] = "done"
            /\ sent[r] = 1
            /\ response[r].status = 500
            /\ \E i \in 1..Len(response[r].body.detail) :
                  response[r].body.detail[i] = reply[r].kind
            /\ \A i \in 1..Len(stages[r]) : stages[r][i] # "sanitize"
            /\ translated_text[r] = <<>>
            /\ cleaned_text[r] = <<>>

\* a request whose backend call timed out has been answered
C6_Witness ==
    \E r \in Requests :
        /\ reply[r].kind = "Timeout"
        /\ pc[r] = "done"
        /\ response[r].status = 500

\* call_ollama_api returned a string for r
InvokerReturned(r) ==
    /\ reply[r].kind = "ok"
    /\ pc[r] \in {"called", "cleaned"} \/ Len(stages[r]) = 3

\* C7: a 2xx answer without a "response" text, or with an empty one, makes
\* the invoker fail; every string it returns is non-empty after trimming.
C7_InvokerNeverReturnsEmpty ==
    \A r \in Requests :
        /\ (reply[r].kind = "ok" /\ ResponseField(reply[r]) = <<>>) =>
              (pc[r] = "done" /\ response[r].status = 500 /\ Len(stages[r]) = 2)
        /\ InvokerReturned(r) => Strip(translated_text[r]) # <<>>

\* the order of the stages of translate
StageOrder == <<"payload", "backend", "sanitize">>

IsPrefix(a, b) == Len(a) <= Len(b) /\ a = SubSeq(b, 1, Len(a))

\* C8: a request makes at most one backend call in its whole life, none
\* after a failure, and its stages run in the order payload, backend call,
\* sanitization.
C8_OneCallInOrder ==
    \A r \in Requests :
        /\ Len(calls[r]) <= 1
        /\ IsPrefix(stages[r], StageOrder)
        /\ Len(calls[r]) = Len(SelectSeq(stages[r], LAMBDA s : s = "backend"))
        /\ response[r].status = 500 => pc[r] = "done"

\* a request that failed after sanitization, having called the backend once
C8_Witness ==
    \E r \in Requests :
        /\ pc[r] = "done"
        /\ response[r].status = 500
        /\ stages[r] = StageOrder
        /\ Len(calls[r]) = 1

\* what translate answers to rq when the backend replies rp
Outcome(v, rq, rp) ==
    LET res == call_ollama_api(v, rp)
    IN  IF res.raised THEN ErrorResponse(res.exc)
        ELSE Finish(v, rq, clean_translation(v, res.value))

\* the outcome of each finished request comes from its own input and its
\* own backend reply
OutcomeIsOwn ==
    \A r \in Requests :
        pc[r] = "done" => response[r] = Outcome(variant, request[r], reply[r])

\* the state of request r
Own(r) ==
    <<request[r], pc[r], payload[r], reply[r], translated_text[r],
      cleaned_text[r], response[r], calls[r], stages[r], sent[r]>>

\* a step changes the state of one request at most, and never the
\* configuration
OneRequestPerStep ==
    /\ \E r \in Requests : \A q \in Requests \ {r} : Own(q)' = Own(q)
    /\ cfg' = cfg
    /\ variant' = variant

\* C9 as stated: outcomes are the requests' own, and no step writes state
\* that the steps of another request write: the only state requests share
\* is the configuration, which never changes.
C9_NoSharedState ==
    /\ []OutcomeIsOwn
    /\ [][OneRequestPerStep /\ log' = log]_vars

\* C9, amended: outcomes are the requests' own, a step changes one request's
\* state at most and never the configuration; the one thing the requests
\* all write is the log, where a step only adds records of its own request.
C9_SharedLogOnly ==
    /\ []OutcomeIsOwn
    /\ [][/\ OneRequestPerStep
          /\ log \subseteq log'
          /\ \A rec \in log' \ log : Own(rec[1])' # Own(rec[1])]_vars

\* two requests have finished with different outcomes, both having logged
C9_Witness ==
    \E r, q \in Requests :
        /\ pc[r] = "done" /\ response[r].status = 200
        /\ pc[q] = "done" /\ response[q].status = 500
        /\ \E e1, e2 \in {"unexpected_error", "cleaned"} :
              <<r, e1>> \in log /\ <<q, e2>> \in log

====
